---- MODULE Spec2Model ----
(***************************************************************************)
(* Overlay navigation and cache-consistency subsystem of the photo-sharing *)
(* application (sns-web): the shared photo-id registry (PhotoIdsContext),  *)
(* its writer PhotoIdsContainer, the keyboard navigator of the modal page, *)
(* and the create / delete / like mutations with their tag invalidations.  *)
(***************************************************************************)
EXTENDS Integers, Sequences, FiniteSets, Bags, TLC

\* ------------------------------------------------------------------------
\* Values
\* ------------------------------------------------------------------------

PhotoIdSet == {"a", "b", "c"}

NotFound == "NotFound"

Closed == "closed"

None == "none"

\* Longest identifier sequence a list surface is given in the resolver runs.
MaxLen == 3

Directions == {"Next", "Prev"}

Containers == {1, 2}

RECURSIVE SeqsOfLen(_)
SeqsOfLen(n) ==
    IF n = 0 THEN {<< >>}
    ELSE {Append(s, x) : s \in SeqsOfLen(n - 1), x \in PhotoIdSet}

SeqsUpTo(n) == UNION {SeqsOfLen(k) : k \in 0..n}

\* The pages a list surface renders in the lifecycle runs (photos.map(p => p.id)).
Pages == {<< >>, <<"a", "b", "c">>, <<"b", "a">>, <<"c", "a", "c">>}

VARIABLES
    photoIdsRef,   \* PhotoIdsContext ref: photoIdsRef.current
    phase,         \* per PhotoIdsContainer: lifecycle position
    photoIds,      \* per PhotoIdsContainer: the photoIds prop of the last render
    flushing,      \* the container whose passive-effect flush is running, or 0
    overlay,       \* Closed, or the photo id the modal page is open on
    url,           \* address held by the routing layer: "/" or the photo id of /photos/<id>/view
    navEvent       \* the last operation of the navigation side

navVars == <<photoIdsRef, phase, photoIds, flushing, overlay, url, navEvent>>

VARIABLES
    calls,         \* the mutation calls being served: a bag of call records
    photos,        \* persistence boundary: the stored photos, [id, owner]
    nextId,        \* index of the id the backend gives the next photo
    cache,         \* data cache of the listing fetch, per authorId
    lastRead       \* the listing read that was the last step, if it was one

mutVars == <<calls, photos, nextId, cache, lastRead>>

VARIABLES
    likes,         \* persistence boundary: the stored likes, [identity, photoId]
    likeInFlight,  \* per photo: POST /api/photos/<id>/like requests sent, not yet served
    likeAnswered   \* per photo: like requests the Route Handler has answered

likeVars == <<likes, likeInFlight, likeAnswered>>

\* The client-side forms: the create form (PhotoCreateForm in its modal), the
\* delete dialog that submits the Server Action, the delete dialog that uses fetch.
Forms == {"create", "deleteAction", "deleteFetch"}

VARIABLES
    formOpen,      \* per form: the modal holding the form is open (isOpen)
    formBusy,      \* per form: pending of the form action / isSubmitting
    formError,     \* per form: what the form has shown to the user (error state, alert)
    location,      \* where the client router was sent last
    formEvent      \* the last step a form handler made

formVars == <<formOpen, formBusy, formError, location, formEvent>>

vars == <<navVars, mutVars, likeVars, formVars>>

NoEvent == [op |-> "init", c |-> 0, id |-> None, dir |-> None, result |-> None, prev |-> << >>]

\* Identities a session can carry.
Users == {"u1", "u2"}

\* getServerSession() resolved to null.
NoSession == "nosession"

Callers == Users \cup {NoSession}

\* The userId field a client may put into the submitted payload (None: no such field).
ClientIds == {None, "u2"}

\* The callers of the delete gateway in the runs of the gateway alone: a
\* signed-in user, who deletes photos of either owner, and a caller without
\* a session.
Deleters == {"u1", NoSession}

\* Mutation calls served at the same time.
MaxInFlight == 2

\* Photos the backend creates in a run.
MaxPhotos == 2

\* The ids the backend hands out, in order.
NewIds == <<"p1", "p2", "p3", "p4">>

\* The ids a delete request may name.
Targets == {NewIds[i] : i \in 1..MaxPhotos}

\* `photos?authorId=${id}`
AuthorTag(o) == <<"photos?authorId=", o>>

\* `photos/${id}`
DetailTag(id) == <<"photos/", id>>

\* The locals of a call that has just been invoked.
NewCall ==
    [kind |-> "new", pc |-> "new", caller |-> None, session |-> None,
     clientUserId |-> None, target |-> "", photo |-> "", photoId |-> "",
     owner |-> None, wrote |-> FALSE, invalidated |-> {}, result |-> None,
     imageUrl |-> None]

NoEntry == [valid |-> FALSE, data |-> {}, tags |-> {}]

NoRead == [valid |-> FALSE, owner |-> None, data |-> {}]

InitMutVars ==
    /\ calls = EmptyBag
    /\ photos = {}
    /\ nextId = 1
    /\ cache = [o \in Users |-> NoEntry]
    /\ lastRead = NoRead

\* Like clicks made in a run, per photo.
MaxLikeClicks == 3

InitLikeVars ==
    /\ likes = {}
    /\ likeInFlight = [p \in PhotoIdSet |-> 0]
    /\ likeAnswered = [p \in PhotoIdSet |-> 0]

NoFormEvent == [op |-> "none", form |-> None, result |-> None, wasOpen |-> FALSE,
                did |-> << >>]

InitFormVars ==
    /\ formOpen = [f \in Forms |-> FALSE]
    /\ formBusy = [f \in Forms |-> FALSE]
    /\ formError = [f \in Forms |-> None]
    /\ location = "/"
    /\ formEvent = NoFormEvent

\* ------------------------------------------------------------------------
\* NavigationResolver (PhotoViewNavigator)
\* ------------------------------------------------------------------------

RECURSIVE ScanFrom(_, _, _)
ScanFrom(S, id, k) ==
    IF k > Len(S) THEN -1
    ELSE IF S[k] = id THEN k - 1
    ELSE ScanFrom(S, id, k + 1)

\* Linear scan: the 0-based index of the first occurrence, -1 when absent.
indexOf(S, id) == ScanFrom(S, id, 1)

Delta(dir) == IF dir = "Next" THEN 1 ELSE -1

resolveWrap(S, id, dir) ==
    LET i == indexOf(S, id)
    IN  IF i = -1 THEN NotFound
        ELSE S[((i + Delta(dir) + Len(S)) % Len(S)) + 1]

resolveNoPresenceCheck(S, id, dir) ==
    LET j == indexOf(S, id) + Delta(dir)
    IN  IF j >= 0 /\ j < Len(S) THEN S[j + 1] ELSE NotFound

resolveStay(S, id, dir) ==
    LET i == indexOf(S, id)
        j == i + Delta(dir)
    IN  IF i = -1 THEN NotFound
        ELSE IF j >= 0 /\ j < Len(S) THEN S[j + 1]
        ELSE id

resolve(S, id, dir) ==
    LET i == indexOf(S, id)
        j == i + Delta(dir)
    IN  IF i = -1 THEN NotFound
        ELSE IF j >= 0 /\ j < Len(S) THEN S[j + 1]
        ELSE NotFound

\* ------------------------------------------------------------------------
\* PhotoIdsContainer: useEffect(() => { ref.current = photoIds;
\*                                      return () => { ref.current = [] } },
\*                              [photoIdsRef, photoIds])
\* ------------------------------------------------------------------------

\* The effect body.
EffectBody(c) == photoIdsRef' = photoIds[c]

CleanupKeeps(c) == photoIdsRef' = photoIdsRef

CleanupOwnOnly(c) ==
    photoIdsRef' = IF photoIdsRef = photoIds[c] THEN << >> ELSE photoIdsRef

\* The cleanup returned by the effect.
CleanupBody(c) == photoIdsRef' = << >>

Idle == flushing = 0

\* First render of a list surface: committed, its passive effect still pending.
Mount(c, ids) ==
    /\ Idle
    /\ phase[c] = "unmounted"
    /\ phase' = [phase EXCEPT ![c] = "committed"]
    /\ photoIds' = [photoIds EXCEPT ![c] = ids]
    /\ navEvent' = [NoEvent EXCEPT !.op = "mount", !.c = c]
    /\ UNCHANGED <<photoIdsRef, flushing, overlay, url>>
    /\ UNCHANGED <<mutVars, likeVars, formVars>>

\* The passive effect of the mount, or of an update after its cleanup.
RunEffect(c) ==
    /\ \/ Idle /\ phase[c] = "committed"
       \/ flushing = c /\ phase[c] = "cleaned"
    /\ EffectBody(c)
    /\ phase' = [phase EXCEPT ![c] = "synced"]
    /\ flushing' = 0
    /\ navEvent' = [NoEvent EXCEPT !.op = "effect", !.c = c, !.prev = photoIdsRef,
                                   !.result = IF phase[c] = "cleaned" THEN "rerun"
                                                                      ELSE "first"]
    /\ UNCHANGED <<photoIds, overlay, url>>
    /\ UNCHANGED <<mutVars, likeVars, formVars>>

\* A re-render with a new photoIds array: the dependency changed.
Rerender(c, ids) ==
    /\ Idle
    /\ phase[c] = "synced"
    /\ phase' = [phase EXCEPT ![c] = "stale"]
    /\ photoIds' = [photoIds EXCEPT ![c] = ids]
    /\ navEvent' = [NoEvent EXCEPT !.op = "rerender", !.c = c]
    /\ UNCHANGED <<photoIdsRef, flushing, overlay, url>>
    /\ UNCHANGED <<mutVars, likeVars, formVars>>

CleanupOnUpdateSkipped(c) ==
    /\ Idle
    /\ phase[c] = "stale"
    /\ phase' = [phase EXCEPT ![c] = "cleaned"]
    /\ flushing' = c
    /\ navEvent' = [NoEvent EXCEPT !.op = "cleanup", !.c = c, !.prev = photoIdsRef]
    /\ UNCHANGED <<photoIdsRef, photoIds, overlay, url>>
    /\ UNCHANGED <<mutVars, likeVars, formVars>>

\* The cleanup of the previous effect, run before the effect re-runs.
CleanupOnUpdate(c) ==
    /\ Idle
    /\ phase[c] = "stale"
    /\ CleanupBody(c)
    /\ phase' = [phase EXCEPT ![c] = "cleaned"]
    /\ flushing' = c
    /\ navEvent' = [NoEvent EXCEPT !.op = "cleanup", !.c = c, !.prev = photoIdsRef]
    /\ UNCHANGED <<photoIds, overlay, url>>
    /\ UNCHANGED <<mutVars, likeVars, formVars>>

\* Unmount of the list surface: the cleanup of its effect runs.
Unmount(c) ==
    /\ Idle
    /\ phase[c] = "synced"
    /\ CleanupBody(c)
    /\ phase' = [phase EXCEPT ![c] = "unmounted"]
    /\ photoIds' = [photoIds EXCEPT ![c] = << >>]
    /\ navEvent' = [NoEvent EXCEPT !.op = "teardown", !.c = c, !.prev = photoIdsRef]
    /\ UNCHANGED <<flushing, overlay, url>>
    /\ UNCHANGED <<mutVars, likeVars, formVars>>

\* ------------------------------------------------------------------------
\* Overlay (modal page /photos/[photoId]/view with PhotoViewNavigator)
\* ------------------------------------------------------------------------

OpenOverlayWriting(id) ==
    /\ Idle
    /\ overlay = Closed
    /\ overlay' = id
    /\ url' = id
    /\ photoIdsRef' = <<id>>
    /\ navEvent' = [NoEvent EXCEPT !.op = "open", !.id = id]
    /\ UNCHANGED <<phase, photoIds, flushing>>
    /\ UNCHANGED <<mutVars, likeVars, formVars>>

\* Activation: the intercepted route renders the modal page for id.
OpenOverlay(id) ==
    /\ Idle
    /\ overlay = Closed
    /\ overlay' = id
    /\ url' = id
    /\ navEvent' = [NoEvent EXCEPT !.op = "open", !.id = id]
    /\ UNCHANGED <<photoIdsRef, phase, photoIds, flushing>>
    /\ UNCHANGED <<mutVars, likeVars, formVars>>

CloseOverlay ==
    /\ Idle
    /\ overlay # Closed
    /\ overlay' = Closed
    /\ url' = "/"
    /\ navEvent' = [NoEvent EXCEPT !.op = "close", !.id = overlay]
    /\ UNCHANGED <<photoIdsRef, phase, photoIds, flushing>>
    /\ UNCHANGED <<mutVars, likeVars, formVars>>

KeyDownNoPush(dir) ==
    /\ Idle
    /\ overlay # Closed
    /\ LET r == resolve(photoIdsRef, overlay, dir)
       IN  /\ navEvent' = [NoEvent EXCEPT !.op = "resolve", !.id = overlay,
                                          !.dir = dir, !.result = r]
           /\ overlay' = IF r = NotFound THEN overlay ELSE r
    /\ UNCHANGED <<photoIdsRef, phase, photoIds, flushing, url>>
    /\ UNCHANGED <<mutVars, likeVars, formVars>>

\* ArrowRight / ArrowLeft while the overlay is open.
KeyDown(dir) ==
    /\ Idle
    /\ overlay # Closed
    /\ LET r == resolve(photoIdsRef, overlay, dir)
       IN  /\ navEvent' = [NoEvent EXCEPT !.op = "resolve", !.id = overlay,
                                          !.dir = dir, !.result = r]
           /\ IF r = NotFound
              THEN UNCHANGED <<overlay, url>>
              ELSE overlay' = r /\ url' = r
    /\ UNCHANGED <<photoIdsRef, phase, photoIds, flushing>>
    /\ UNCHANGED <<mutVars, likeVars, formVars>>

\* ------------------------------------------------------------------------
\* Specifications of the navigation side
\* ------------------------------------------------------------------------

InitNav ==
    /\ photoIdsRef = << >>
    /\ phase = [c \in Containers |-> "unmounted"]
    /\ photoIds = [c \in Containers |-> << >>]
    /\ flushing = 0
    /\ overlay = Closed
    /\ url = "/"
    /\ navEvent = NoEvent
    /\ InitMutVars
    /\ InitLikeVars
    /\ InitFormVars

\* Lifecycle of the list surfaces together with the overlay.
NextNav ==
    \/ \E c \in Containers, ids \in Pages : Mount(c, ids)
    \/ \E c \in Containers : RunEffect(c)
    \/ \E c \in Containers, ids \in Pages : Rerender(c, ids)
    \/ \E c \in Containers : CleanupOnUpdate(c)
    \/ \E c \in Containers : Unmount(c)
    \/ \E id \in PhotoIdSet : OpenOverlay(id)
    \/ CloseOverlay
    \/ \E dir \in Directions : KeyDown(dir)

SpecNav == InitNav /\ [][NextNav]_vars

\* The resolver over every registry content up to MaxLen: one list surface is
\* mounted and synced with S, and the overlay is opened, moved and closed.
InitResolve ==
    /\ \E S \in SeqsUpTo(MaxLen) :
          /\ photoIdsRef = S
          /\ photoIds = [c \in Containers |-> IF c = 1 THEN S ELSE << >>]
    /\ phase = [c \in Containers |-> IF c = 1 THEN "synced" ELSE "unmounted"]
    /\ flushing = 0
    /\ overlay = Closed
    /\ url = "/"
    /\ navEvent = NoEvent
    /\ InitMutVars
    /\ InitLikeVars
    /\ InitFormVars

NextResolve ==
    \/ \E id \in PhotoIdSet : OpenOverlay(id)
    \/ CloseOverlay
    \/ \E dir \in Directions : KeyDown(dir)

SpecResolve == InitResolve /\ [][NextResolve]_vars

\* ------------------------------------------------------------------------
\* Properties of the navigation side
\* ------------------------------------------------------------------------

\* C1: for a registry sequence S and an id whose first occurrence the linear
\* scan finds at position i, resolve(id, Next) is the element after it when
\* there is one and NotFound otherwise, resolve(id, Prev) is the element
\* before it when there is one and NotFound otherwise; the first and the last
\* element are never neighbours (no wraparound).
C1_ResolveNeighbour ==
    navEvent.op = "resolve" =>
        \A i \in 1..Len(photoIdsRef) :
            ( /\ photoIdsRef[i] = navEvent.id
              /\ \A k \in 1..(i - 1) : photoIdsRef[k] # navEvent.id )
            => navEvent.result =
                 IF navEvent.dir = "Next"
                 THEN (IF i < Len(photoIdsRef) THEN photoIdsRef[i + 1] ELSE NotFound)
                 ELSE (IF i > 1 THEN photoIdsRef[i - 1] ELSE NotFound)

\* Next pressed on the last element of a sequence of at least two elements
\* whose first element differs: the wraparound case.
C1_Witness ==
    /\ navEvent.op = "resolve"
    /\ navEvent.dir = "Next"
    /\ Len(photoIdsRef) >= 2
    /\ photoIdsRef[Len(photoIdsRef)] = navEvent.id
    /\ \A k \in 1..(Len(photoIdsRef) - 1) : photoIdsRef[k] # navEvent.id
    /\ navEvent.result = NotFound

\* C2: for an id that does not occur in the registry sequence (the empty
\* sequence included), resolve returns NotFound in both directions.
C2_ResolveAbsent ==
    ( /\ navEvent.op = "resolve"
      /\ \A i \in 1..Len(photoIdsRef) : photoIdsRef[i] # navEvent.id )
    => /\ navEvent.result = NotFound
       /\ overlay = navEvent.id

\* Next pressed while the overlay shows an id absent from a non-empty registry.
C2_Witness ==
    /\ navEvent.op = "resolve"
    /\ navEvent.dir = "Next"
    /\ Len(photoIdsRef) >= 1
    /\ \A i \in 1..Len(photoIdsRef) : photoIdsRef[i] # navEvent.id
    /\ navEvent.result = NotFound

\* C3: right after the unmount cleanup of a PhotoIdsContainer the registry is
\* the empty sequence, whatever it held before.
C3_TeardownClears ==
    navEvent.op = "teardown" => photoIdsRef = << >>

\* A teardown that found the three-element page in the registry, written by
\* the other list surface, which is still mounted.
C3_Witness ==
    /\ navEvent.op = "teardown"
    /\ Len(navEvent.prev) = 3
    /\ \E c \in Containers : c # navEvent.c /\ phase[c] = "synced" /\ photoIds[c] = navEvent.prev
    /\ photoIdsRef = << >>

\* C15: with the registry holding [a, b, c], Next from b moves the overlay to c,
\* and Next from c resolves to NotFound and changes nothing: the overlay stays
\* open on c, with no wraparound and no close.
C15_NextAtEnd ==
    [][(/\ navEvent'.op = "resolve"
        /\ navEvent'.dir = "Next"
        /\ photoIdsRef = <<"a", "b", "c">>)
          => /\ overlay = "b" => (navEvent'.result = "c" /\ overlay' = "c" /\ url' = "c")
             /\ overlay = "c" => (/\ navEvent'.result = NotFound
                                  /\ overlay' = "c"
                                  /\ url' = url
                                  /\ photoIdsRef' = photoIdsRef)]_vars

C15_Witness ==
    /\ navEvent.op = "resolve"
    /\ navEvent.id = "c"
    /\ navEvent.dir = "Next"
    /\ navEvent.result = NotFound
    /\ overlay = "c"
    /\ photoIdsRef = <<"a", "b", "c">>
    /\ \E c \in Containers : phase[c] = "synced" /\ photoIds[c] = <<"a", "b", "c">>

\* C16: a teardown leaves the registry empty, also while the overlay is open;
\* every resolve made on the empty registry returns NotFound and leaves the
\* overlay where it is; and the registry stays empty until the effect of a
\* list surface writes it again.
C16_ResolveAfterUnmount ==
    [][/\ navEvent'.op = "teardown" => photoIdsRef' = << >>
       /\ (photoIdsRef = << >> /\ navEvent'.op = "resolve")
             => (navEvent'.result = NotFound /\ overlay' = overlay /\ url' = url)
       /\ (photoIdsRef = << >> /\ photoIdsRef' # << >>)
             => navEvent'.op = "effect"]_vars

C16_Witness ==
    /\ navEvent.op = "teardown"
    /\ navEvent.prev # << >>
    /\ overlay # Closed
    /\ photoIdsRef = << >>

\* C17: opening, closing and next/prev traversal of the overlay leave the
\* registry as it is; only the effect of a list surface and its cleanup
\* change it.
C17_OverlayKeepsRegistry ==
    [][/\ navEvent'.op \in {"open", "close", "resolve"} => photoIdsRef' = photoIdsRef
       /\ photoIdsRef' # photoIdsRef
             => navEvent'.op \in {"effect", "cleanup", "teardown"}]_vars

C17_Witness ==
    /\ navEvent.op = "resolve"
    /\ navEvent.result # NotFound
    /\ overlay = navEvent.result
    /\ Len(photoIdsRef) = 3

\* C18: while the overlay is open on an id the routing address names that id;
\* a resolved next/prev leaves both on the new id, a NotFound leaves both on
\* the id the overlay was on.
C18_OverlayMatchesUrl ==
    /\ overlay # Closed => url = overlay
    /\ (navEvent.op = "resolve" /\ navEvent.result # NotFound)
          => (overlay = navEvent.result /\ url = navEvent.result)
    /\ (navEvent.op = "resolve" /\ navEvent.result = NotFound)
          => (overlay = navEvent.id /\ url = navEvent.id)

C18_Witness ==
    /\ navEvent.op = "resolve"
    /\ navEvent.result # NotFound
    /\ navEvent.result # navEvent.id
    /\ url = navEvent.result

\* ------------------------------------------------------------------------
\* MutationGateway: postPhotoAction (Server Action), POST /api/photos (Route
\* Handler), deletePhotoAction; CacheInvalidationCoordinator: revalidateTag
\* ------------------------------------------------------------------------

StoredIds == {p.id : p \in photos}

OwnerOfPhoto(id) == (CHOOSE p \in photos : p.id = id).owner

SessionNeverMissing(session) == FALSE

\* if (!session)
SessionMissing(session) == session = NoSession

OwnerFromClient(session, clientUserId) ==
    IF clientUserId = None THEN session ELSE clientUserId

\* postPhotos({ userId: session.user.id, ... })
OwnerSent(session, clientUserId) == session

CreateTagsAll(session) == {AuthorTag(u) : u \in Users}

\* revalidateTag(`photos?authorId=${session.user.id}`)
CreateTags(session) == {AuthorTag(session)}

\* revalidateTag: every cache entry carrying one of the tags is dropped.
revalidateTag(tags) ==
    [o \in Users |-> IF cache[o].tags \cap tags # {} THEN NoEntry ELSE cache[o]]

\* The calls being served.
InFlight == BagToSet(calls)

\* The call c goes on as d.
Becomes(c, d) == calls' = (calls (-) SetToBag({c})) (+) SetToBag({d})

\* Entry of a create call up to its first request to the backend: the session
\* is read, a call without one returns Unauthorized, otherwise postPhotos is
\* sent and awaited.
CreateEntry(kind, who, cu) ==
    IF SessionMissing(who)
    THEN [NewCall EXCEPT !.kind = kind, !.pc = "done", !.caller = who,
                         !.clientUserId = cu, !.result = "Unauthorized"]
    ELSE [NewCall EXCEPT !.kind = kind, !.pc = "postPhotos", !.caller = who,
                         !.session = who, !.clientUserId = cu]

CreateBegin(kind, who, cu) ==
    /\ BagCardinality(calls) < MaxInFlight
    /\ calls' = calls (+) SetToBag({CreateEntry(kind, who, cu)})
    /\ lastRead' = NoRead
    /\ UNCHANGED <<photos, nextId, cache>>
    /\ UNCHANGED <<navVars, likeVars, formVars>>

postPhotoAction(who, cu) == CreateBegin("action", who, cu)

POST(who, cu) == CreateBegin("route", who, cu)

\* The backend stores the photo under the userId of the request and answers.
PostPhotosSucceeds(c) ==
    /\ c.kind \in {"action", "route"}
    /\ c.pc = "postPhotos"
    /\ nextId <= MaxPhotos
    /\ LET id == NewIds[nextId]
           o  == OwnerSent(c.session, c.clientUserId)
       IN  /\ photos' = photos \cup {[id |-> id, owner |-> o]}
           /\ Becomes(c, [c EXCEPT !.pc = "written", !.photo = id, !.owner = o,
                                   !.wrote = TRUE])
    /\ nextId' = nextId + 1
    /\ lastRead' = NoRead
    /\ UNCHANGED cache
    /\ UNCHANGED <<navVars, likeVars, formVars>>

CreateFailsRevalidating(c) ==
    /\ c.kind \in {"action", "route"}
    /\ c.pc = "postPhotos"
    /\ cache' = revalidateTag(CreateTags(c.session))
    /\ Becomes(c, [c EXCEPT !.pc = "done", !.result = "Internal Server Error",
                            !.invalidated = CreateTags(c.session)])
    /\ lastRead' = NoRead
    /\ UNCHANGED <<photos, nextId>>
    /\ UNCHANGED <<navVars, likeVars, formVars>>

CreateFailsRedirecting(c) ==
    /\ c.kind \in {"action", "route"}
    /\ c.pc = "postPhotos"
    /\ Becomes(c, [c EXCEPT !.pc = "done",
                            !.result = IF c.kind = "action" THEN "redirect"
                                       ELSE "Internal Server Error"])
    /\ lastRead' = NoRead
    /\ UNCHANGED <<photos, nextId, cache>>
    /\ UNCHANGED <<navVars, likeVars, formVars>>

\* The try block threw (the request body could not be read, or postPhotos
\* rejected): the catch returns the Internal Server Error result.
CreateFails(c) ==
    /\ c.kind \in {"action", "route"}
    /\ c.pc = "postPhotos"
    /\ Becomes(c, [c EXCEPT !.pc = "done", !.result = "Internal Server Error"])
    /\ lastRead' = NoRead
    /\ UNCHANGED <<photos, nextId, cache>>
    /\ UNCHANGED <<navVars, likeVars, formVars>>

\* After postPhotos resolved: revalidateTag, photoId = photo.id, then the
\* redirect to /photos/<photoId> (Server Action) or the 201 response (Route
\* Handler).
CreateCompletes(c) ==
    /\ c.kind \in {"action", "route"}
    /\ c.pc = "written"
    /\ LET tags == CreateTags(c.session)
       IN  /\ cache' = revalidateTag(tags)
           /\ Becomes(c, [c EXCEPT !.pc = "done", !.photoId = c.photo,
                                   !.invalidated = tags,
                                   !.result = IF c.kind = "action" THEN "redirect"
                                                                   ELSE "created"])
    /\ lastRead' = NoRead
    /\ UNCHANGED <<photos, nextId>>
    /\ UNCHANGED <<navVars, likeVars, formVars>>

DeleteTargetNeverMissing(target) == FALSE

\* The existence check of the delete.
DeleteTargetMissing(target) == target \notin StoredIds

\* Tags of a delete: the owner's listing and the detail view of the photo.
DeleteTags(owner, target) == {AuthorTag(owner), DetailTag(target)}

\* The delete gateways: the Server Action and the Route Handler DELETE.
DeleteKinds == {"delete", "deleteFetch"}

\* Entry of a delete call: identity check, existence check, then the delete
\* request to the backend is sent and awaited.
DeleteEntry(kind, who, target) ==
    IF SessionMissing(who)
    THEN [NewCall EXCEPT !.kind = kind, !.pc = "done", !.caller = who,
                         !.target = target, !.result = "Unauthorized"]
    ELSE IF DeleteTargetMissing(target)
    THEN [NewCall EXCEPT !.kind = kind, !.pc = "done", !.caller = who,
                         !.session = who, !.target = target, !.result = NotFound]
    ELSE [NewCall EXCEPT !.kind = kind, !.pc = "deleting", !.caller = who,
                         !.session = who, !.target = target]

deletePhotoAction(who, target) ==
    /\ BagCardinality(calls) < MaxInFlight
    /\ calls' = calls (+) SetToBag({DeleteEntry("delete", who, target)})
    /\ lastRead' = NoRead
    /\ UNCHANGED <<photos, nextId, cache>>
    /\ UNCHANGED <<navVars, likeVars, formVars>>

\* The backend removes the photo and answers.
DeleteSucceeds(c) ==
    /\ c.kind \in DeleteKinds
    /\ c.pc = "deleting"
    /\ c.target \in StoredIds
    /\ photos' = {p \in photos : p.id # c.target}
    /\ Becomes(c, [c EXCEPT !.pc = "deleted", !.owner = OwnerOfPhoto(c.target),
                            !.wrote = TRUE])
    /\ lastRead' = NoRead
    /\ UNCHANGED <<nextId, cache>>
    /\ UNCHANGED <<navVars, likeVars, formVars>>

\* The backend request failed: the Internal failure is returned.
DeleteFails(c) ==
    /\ c.kind \in DeleteKinds
    /\ c.pc = "deleting"
    /\ Becomes(c, [c EXCEPT !.pc = "done", !.result = "Internal Server Error"])
    /\ lastRead' = NoRead
    /\ UNCHANGED <<photos, nextId, cache>>
    /\ UNCHANGED <<navVars, likeVars, formVars>>

\* After the delete was stored: the tags are invalidated and the call returns.
DeleteCompletes(c) ==
    /\ c.kind \in DeleteKinds
    /\ c.pc = "deleted"
    /\ LET tags == DeleteTags(c.owner, c.target)
       IN  /\ cache' = revalidateTag(tags)
           /\ Becomes(c, [c EXCEPT !.pc = "done", !.invalidated = tags, !.result = "ok"])
    /\ lastRead' = NoRead
    /\ UNCHANGED <<photos, nextId>>
    /\ UNCHANGED <<navVars, likeVars, formVars>>

\* The client has received the result of the call.
Retire(c) ==
    /\ c.pc = "done"
    /\ calls' = calls (-) SetToBag({c})
    /\ lastRead' = NoRead
    /\ UNCHANGED <<photos, nextId, cache>>
    /\ UNCHANGED <<navVars, likeVars, formVars>>

\* ------------------------------------------------------------------------
\* Listing read: getPhotos({ authorId })
\* ------------------------------------------------------------------------

\* What the backend answers to /api/photos?authorId=<authorId>.
Listing(authorId) == {p.id : p \in {q \in photos : q.owner = authorId}}

\* The tags the fetch of getPhotos registers: it passes no options.
getPhotosTags(authorId) == {}

\* A read of the listing of authorId, served from the data cache when it
\* holds the fetch. A fetched answer is kept by the data cache or not: the
\* fetch states no cache option, so the framework decides (a page that read
\* the session cookie before does not keep it, a page that did not does).
getPhotos(authorId, keep) ==
    /\ LET hit  == cache[authorId].valid
           data == IF hit THEN cache[authorId].data ELSE Listing(authorId)
       IN  /\ lastRead' = [valid |-> TRUE, owner |-> authorId, data |-> data]
           /\ cache' = IF ~hit /\ keep
                       THEN [cache EXCEPT ![authorId] =
                               [valid |-> TRUE, data |-> data, tags |-> getPhotosTags(authorId)]]
                       ELSE cache
    /\ UNCHANGED <<calls, photos, nextId>>
    /\ UNCHANGED <<navVars, likeVars, formVars>>

InitMut == InitNav

NextMut ==
    \/ \E who \in Callers, cu \in ClientIds : postPhotoAction(who, cu)
    \/ \E who \in Callers, cu \in ClientIds : POST(who, cu)
    \/ \E c \in InFlight : PostPhotosSucceeds(c)
    \/ \E c \in InFlight : CreateFails(c)
    \/ \E c \in InFlight : CreateCompletes(c)
    \/ \E who \in Deleters, target \in Targets : deletePhotoAction(who, target)
    \/ \E c \in InFlight : DeleteSucceeds(c)
    \/ \E c \in InFlight : DeleteFails(c)
    \/ \E c \in InFlight : DeleteCompletes(c)
    \/ \E c \in InFlight : Retire(c)

SpecMut == InitMut /\ [][NextMut]_vars

InitCache == InitNav

\* Creates through the Server Action together with reads of the listings.
NextCache ==
    \/ \E who \in Callers : postPhotoAction(who, None)
    \/ \E c \in InFlight : PostPhotosSucceeds(c)
    \/ \E c \in InFlight : CreateFails(c)
    \/ \E c \in InFlight : CreateCompletes(c)
    \/ \E c \in InFlight : Retire(c)
    \/ \E authorId \in Users, keep \in BOOLEAN : getPhotos(authorId, keep)

SpecCache == InitCache /\ [][NextCache]_vars

\* ------------------------------------------------------------------------
\* Properties of the mutation side
\* ------------------------------------------------------------------------

IsCreate(call) == call.kind \in {"action", "route"}

Succeeded(call) == call.pc = "done" /\ call.result \in {"redirect", "created", "ok"}

\* C4: a call (create through the Server Action, create through the Route
\* Handler, delete) has issued tag invalidations only if its own persistence
\* write had completed successfully before.
C4_InvalidateAfterWrite ==
    \A c \in InFlight :
        /\ c.invalidated # {} => c.wrote
        /\ c.pc = "done" /\ c.result = "Internal Server Error" => c.invalidated = {}

\* A create whose write failed, next to a create that wrote and invalidated.
C4_Witness ==
    \E c, d \in InFlight :
        /\ IsCreate(c) /\ Succeeded(c) /\ c.wrote /\ c.invalidated # {}
        /\ IsCreate(d) /\ d.pc = "done" /\ d.result = "Internal Server Error"
        /\ ~d.wrote /\ d.invalidated = {}

\* C5: a create invoked without a session, through either path, returns
\* Unauthorized at once: postPhotos is never requested, nothing is stored and
\* no tag is invalidated.
C5_UnauthenticatedCreate ==
    \A c \in InFlight :
        IsCreate(c) /\ c.caller = NoSession
        => /\ c.pc = "done"
           /\ c.result = "Unauthorized"
           /\ ~c.wrote
           /\ c.photo = ""
           /\ c.invalidated = {}

\* Both create paths were invoked without a session.
C5_Witness ==
    \E c, d \in InFlight :
        /\ c.kind = "action" /\ c.caller = NoSession /\ c.result = "Unauthorized"
        /\ d.kind = "route" /\ d.caller = NoSession /\ d.result = "Unauthorized"
        /\ photos = {}

\* C6: a successful create of a photo owned by O has invalidated the tag
\* photos?authorId=O, and a create invalidates no other owner's tag.
C6_CreateTagScoped ==
    \A c \in InFlight :
        IsCreate(c)
        => /\ Succeeded(c) => AuthorTag(c.owner) \in c.invalidated
           /\ \A o \in Users : AuthorTag(o) \in c.invalidated => o = c.owner

\* Two creates by different owners, one through each path, have completed.
C6_Witness ==
    \E c, d \in InFlight :
        /\ c.kind = "action" /\ Succeeded(c) /\ c.owner = "u1"
        /\ c.invalidated = {AuthorTag("u1")}
        /\ d.kind = "route" /\ Succeeded(d) /\ d.owner = "u2"
        /\ d.invalidated = {AuthorTag("u2")}

\* C8: the owner stored for a created photo is the identity of the session,
\* whatever userId the client put into the payload; two creates under the
\* same session store the same owner and invalidate the same tag.
C8_OwnerIsSession ==
    /\ \A c \in InFlight : IsCreate(c) /\ c.wrote => c.owner = c.session
    /\ \A c, d \in InFlight :
          ( /\ IsCreate(c) /\ Succeeded(c)
            /\ IsCreate(d) /\ Succeeded(d)
            /\ c.session = d.session )
          => /\ c.owner = d.owner
             /\ c.invalidated = d.invalidated

\* Two completed creates under the session of u1, one whose payload names u2.
C8_Witness ==
    \E c, d \in InFlight :
        /\ IsCreate(c) /\ Succeeded(c) /\ c.session = "u1" /\ c.clientUserId = "u2"
        /\ IsCreate(d) /\ Succeeded(d) /\ d.session = "u1" /\ d.clientUserId = None
        /\ [id |-> c.photoId, owner |-> "u1"] \in photos
        /\ [id |-> d.photoId, owner |-> "u1"] \in photos

\* C10: a delete, invoked with a session, of a photo that is not stored
\* (never created, or deleted before) returns NotFound in that step, and the
\* step neither writes to the store nor invalidates a tag.
C10_DeleteMissing ==
    [][ \A c \in BagToSet(calls') :
          ( /\ BagCardinality(calls') > BagCardinality(calls)
            /\ CopiesIn(c, calls') > CopiesIn(c, calls)
            /\ c.kind = "delete"
            /\ c.caller # NoSession
            /\ c.target \notin StoredIds )
          => /\ c.pc = "done"
             /\ c.result = NotFound
             /\ ~c.wrote
             /\ c.invalidated = {}
             /\ photos' = photos
             /\ cache' = cache ]_vars

\* A delete of a photo answered NotFound after another delete of the same
\* photo had succeeded.
C10_Witness ==
    \E c, d \in InFlight :
        /\ c.kind = "delete" /\ c.result = NotFound
        /\ d.kind = "delete" /\ Succeeded(d)
        /\ d.target = c.target
        /\ c.target \notin StoredIds
        /\ ~c.wrote /\ c.invalidated = {}

\* C7: after a create under the session of O has returned its success with
\* the new id X, the tag photos?authorId=O has been invalidated and a read
\* of the listing of O made after that return contains X.
C7_ReadSeesCreated ==
    \A c \in InFlight :
        c.kind = "action" /\ Succeeded(c)
        => /\ AuthorTag(c.session) \in c.invalidated
           /\ lastRead.valid /\ lastRead.owner = c.session
                 => c.photoId \in lastRead.data

\* ------------------------------------------------------------------------
\* Like: LikeButton and the Route Handler POST /api/photos/[photoId]/like
\* ------------------------------------------------------------------------

\* onClick of LikeButton: the POST request is sent and not awaited; the
\* button stays enabled.
LikeButtonClick(photoId) ==
    /\ likeInFlight[photoId] + likeAnswered[photoId] < MaxLikeClicks
    /\ likeInFlight' = [likeInFlight EXCEPT ![photoId] = @ + 1]
    /\ UNCHANGED <<likes, likeAnswered>>
    /\ UNCHANGED <<navVars, mutVars, formVars>>

\* The Route Handler: it logs the photoId and answers { liked: true }; it
\* reads no session and writes nothing to the store.
LikePOST(photoId) ==
    /\ likeInFlight[photoId] > 0
    /\ likeInFlight' = [likeInFlight EXCEPT ![photoId] = @ - 1]
    /\ likeAnswered' = [likeAnswered EXCEPT ![photoId] = @ + 1]
    /\ UNCHANGED likes
    /\ UNCHANGED <<navVars, mutVars, formVars>>

InitLike == InitNav

NextLike ==
    \/ \E photoId \in PhotoIdSet : LikeButtonClick(photoId)
    \/ \E photoId \in PhotoIdSet : LikePOST(photoId)

SpecLike == InitLike /\ [][NextLike]_vars

\* C9: once two like requests for the same photo under the same identity
\* have been served, the store holds exactly one like of that photo (one
\* persisted change from none, and a like count of one).
C9_LikeOnce ==
    \A p \in PhotoIdSet :
        likeAnswered[p] >= 2 => Cardinality({l \in likes : l.photoId = p}) = 1

\* ------------------------------------------------------------------------
\* Forms: PhotoCreateForm and the two PhotoDeleteForm dialogs
\* ------------------------------------------------------------------------

\* The user of the browser the forms run in, signed in or signed out.
FormSessions == {"u1", NoSession}

\* The gateway call a form sends.
KindOf(f) ==
    CASE f = "create" -> "action"
      [] f = "deleteAction" -> "delete"
      [] f = "deleteFetch" -> "deleteFetch"

\* The calls of form f that have not been handed back to its handler.
CallsOf(f) == {c \in InFlight : c.kind = KindOf(f)}

CountOf(f) == BagCardinality([c \in CallsOf(f) |-> calls[c]])

\* The forms that stand for the same component as f: the two delete dialogs
\* are two implementations of PhotoDeleteForm, a page shows one of them.
Rivals(f) == IF f = "create" THEN {} ELSE {"deleteAction", "deleteFetch"} \ {f}

\* ModalContainer: the toggle button opens the modal, which mounts the form
\* with its initial state.
OpenForm(f) ==
    /\ ~formOpen[f]
    /\ CallsOf(f) = {}
    /\ \A g \in Rivals(f) : ~formOpen[g] /\ CallsOf(g) = {}
    /\ formOpen' = [formOpen EXCEPT ![f] = TRUE]
    /\ formBusy' = [formBusy EXCEPT ![f] = FALSE]
    /\ formError' = [formError EXCEPT ![f] = None]
    /\ formEvent' = NoFormEvent
    /\ UNCHANGED location
    /\ UNCHANGED <<navVars, mutVars, likeVars>>

\* The user dismisses the modal (Cancel button: closeModal).
CloseForm(f) ==
    /\ formOpen[f]
    /\ formOpen' = [formOpen EXCEPT ![f] = FALSE]
    /\ formEvent' = NoFormEvent
    /\ UNCHANGED <<formBusy, formError, location>>
    /\ UNCHANGED <<navVars, mutVars, likeVars>>

\* The submit control of the create form is disabled while its action is pending.
CreateSubmitDisabled == formBusy["create"]

handleSubmitWithoutPhotoCheck(photoData) ==
    /\ formOpen["create"]
    /\ ~CreateSubmitDisabled
    /\ IF ~photoData
       THEN /\ formEvent' = [op |-> "noPhoto", form |-> "create", result |-> None,
                             wasOpen |-> TRUE, did |-> <<"close">>]
            /\ formOpen' = [formOpen EXCEPT !["create"] = FALSE]
            /\ UNCHANGED <<formBusy, formError, location>>
            /\ UNCHANGED mutVars
       ELSE /\ BagCardinality(calls) < MaxInFlight
            /\ calls' = calls (+) SetToBag({[NewCall EXCEPT !.kind = "action",
                                                            !.pc = "uploadPhoto"]})
            /\ formBusy' = [formBusy EXCEPT !["create"] = TRUE]
            /\ formEvent' = NoFormEvent
            /\ lastRead' = NoRead
            /\ UNCHANGED <<formOpen, formError, location>>
            /\ UNCHANGED <<photos, nextId, cache>>
    /\ UNCHANGED <<navVars, likeVars>>

\* PhotoCreateForm.handleSubmit up to its first await: without a selected
\* photo it returns, otherwise uploadPhoto is started.
handleSubmit(photoData) ==
    /\ formOpen["create"]
    /\ ~CreateSubmitDisabled
    /\ IF ~photoData
       THEN /\ formEvent' = [op |-> "noPhoto", form |-> "create", result |-> None,
                             wasOpen |-> TRUE, did |-> << >>]
            /\ UNCHANGED <<formOpen, formBusy, formError, location>>
            /\ UNCHANGED mutVars
       ELSE /\ BagCardinality(calls) < MaxInFlight
            /\ calls' = calls (+) SetToBag({[NewCall EXCEPT !.kind = "action",
                                                            !.pc = "uploadPhoto"]})
            /\ formBusy' = [formBusy EXCEPT !["create"] = TRUE]
            /\ formEvent' = NoFormEvent
            /\ lastRead' = NoRead
            /\ UNCHANGED <<formOpen, formError, location>>
            /\ UNCHANGED <<photos, nextId, cache>>
    /\ UNCHANGED <<navVars, likeVars>>

\* The imageUrl uploadPhoto resolves with.
UploadedUrl == "imageUrl"

\* uploadPhoto resolved: postPhotoAction is called with the imageUrl and
\* runs up to its first request to the backend.
UploadSucceeds(c, who) ==
    /\ c.kind = "action"
    /\ c.pc = "uploadPhoto"
    /\ Becomes(c, [CreateEntry("action", who, None) EXCEPT !.imageUrl = UploadedUrl])
    /\ lastRead' = NoRead
    /\ UNCHANGED <<photos, nextId, cache>>
    /\ UNCHANGED <<navVars, likeVars, formVars>>

\* uploadPhoto rejected: control goes to the catch of handleSubmit.
UploadFails(c) ==
    /\ c.kind = "action"
    /\ c.pc = "uploadPhoto"
    /\ Becomes(c, [c EXCEPT !.pc = "done", !.result = "threw"])
    /\ lastRead' = NoRead
    /\ UNCHANGED <<photos, nextId, cache>>
    /\ UNCHANGED <<navVars, likeVars, formVars>>

\* The rest of handleSubmit once its awaits are over: the catch alerts if
\* something threw, the value postPhotoAction returned is not read, a
\* redirect issued by the action is followed, and close() is called.
handleSubmitReturns(c) ==
    /\ c.kind = "action"
    /\ c.pc = "done"
    /\ calls' = calls (-) SetToBag({c})
    /\ formError' = IF c.result = "threw"
                    THEN [formError EXCEPT !["create"] = "alert"]
                    ELSE formError
    /\ location' = IF c.result = "redirect" THEN c.photoId ELSE location
    /\ formOpen' = [formOpen EXCEPT !["create"] = FALSE]
    /\ formBusy' = [formBusy EXCEPT !["create"] = FALSE]
    /\ formEvent' = [op |-> "returned", form |-> "create", result |-> c.result,
                     wasOpen |-> formOpen["create"],
                     did |-> IF c.result = "threw" THEN <<"alert", "close">>
                                                   ELSE <<"close">>]
    /\ lastRead' = NoRead
    /\ UNCHANGED <<photos, nextId, cache>>
    /\ UNCHANGED <<navVars, likeVars>>

\* useFormStatus().pending of the delete dialog: its submit button is
\* disabled while the form action runs.
pending == formBusy["deleteAction"]

\* PhotoDeleteForm.handleAction (Server Action form) up to its await.
handleAction(who, target) ==
    /\ formOpen["deleteAction"]
    /\ ~pending
    /\ BagCardinality(calls) < MaxInFlight
    /\ calls' = calls (+) SetToBag({DeleteEntry("delete", who, target)})
    /\ formBusy' = [formBusy EXCEPT !["deleteAction"] = TRUE]
    /\ formEvent' = NoFormEvent
    /\ lastRead' = NoRead
    /\ UNCHANGED <<formOpen, formError, location>>
    /\ UNCHANGED <<photos, nextId, cache>>
    /\ UNCHANGED <<navVars, likeVars>>

\* The rest of handleAction: an error result is put into the error state and
\* the dialog stays, otherwise closeModal() is called.
handleActionReturns(c) ==
    /\ c.kind = "delete"
    /\ c.pc = "done"
    /\ calls' = calls (-) SetToBag({c})
    /\ IF c.result # "ok"
       THEN /\ formError' = IF formOpen["deleteAction"]
                            THEN [formError EXCEPT !["deleteAction"] = c.result]
                            ELSE formError
            /\ UNCHANGED formOpen
       ELSE /\ formOpen' = [formOpen EXCEPT !["deleteAction"] = FALSE]
            /\ UNCHANGED formError
    /\ formBusy' = [formBusy EXCEPT !["deleteAction"] = FALSE]
    /\ formEvent' = [op |-> "returned", form |-> "deleteAction", result |-> c.result,
                     wasOpen |-> formOpen["deleteAction"],
                     did |-> IF c.result # "ok" THEN <<"setError">>
                                                ELSE <<"closeModal">>]
    /\ lastRead' = NoRead
    /\ UNCHANGED location
    /\ UNCHANGED <<photos, nextId, cache>>
    /\ UNCHANGED <<navVars, likeVars>>

IsSubmittingNeverSet == FALSE

\* The isSubmitting state of the fetch-based delete dialog.
isSubmitting == formBusy["deleteFetch"]

\* PhotoDeleteForm.handleAction (fetch form) up to its await: a submit that
\* arrives while isSubmitting returns at once, otherwise the flag is set and
\* DELETE /api/photos/<id> is sent.
handleActionFetch(who, target) ==
    /\ formOpen["deleteFetch"]
    /\ IF isSubmitting
       THEN /\ formEvent' = [op |-> "ignored", form |-> "deleteFetch", result |-> None,
                             wasOpen |-> TRUE, did |-> << >>]
            /\ UNCHANGED <<formOpen, formBusy, formError, location>>
            /\ UNCHANGED mutVars
       ELSE /\ BagCardinality(calls) < MaxInFlight
            /\ calls' = calls (+) SetToBag({DeleteEntry("deleteFetch", who, target)})
            /\ formBusy' = [formBusy EXCEPT !["deleteFetch"] = TRUE]
            /\ formEvent' = NoFormEvent
            /\ lastRead' = NoRead
            /\ UNCHANGED <<formOpen, formError, location>>
            /\ UNCHANGED <<photos, nextId, cache>>
    /\ UNCHANGED <<navVars, likeVars>>

\* What the rest of handleAction (fetch form) does, in order, for a result.
FetchFormSteps(result) ==
    CASE result = "ok" -> <<"router.refresh", "router.push", "finally", "closeModal">>
      [] result = "threwValue" -> <<"finally", "rethrow">>
      [] OTHER -> <<"setError", "finally">>

\* The awaited fetch rejects instead of answering: with an Error (a network
\* failure), or with a value that is not an Error.
FetchThrows(c, isError) ==
    /\ c.kind = "deleteFetch"
    /\ c.pc = "deleting"
    /\ Becomes(c, [c EXCEPT !.pc = "done",
                            !.result = IF isError THEN "threw" ELSE "threwValue"])
    /\ lastRead' = NoRead
    /\ UNCHANGED <<photos, nextId, cache>>
    /\ UNCHANGED <<navVars, likeVars, formVars>>

handleActionFetchReopens(c) ==
    /\ c.kind = "deleteFetch"
    /\ c.pc = "done"
    /\ calls' = calls (-) SetToBag({c})
    /\ CASE c.result = "ok" ->
              /\ location' = "/profile"
              /\ formOpen' = [formOpen EXCEPT !["deleteFetch"] = FALSE]
              /\ UNCHANGED formError
         [] c.result = "threwValue" ->
              UNCHANGED <<formError, formOpen, location>>
         [] OTHER ->
              /\ formError' = [formError EXCEPT !["deleteFetch"] = c.result]
              /\ formOpen' = [formOpen EXCEPT !["deleteFetch"] = TRUE]
              /\ UNCHANGED location
    /\ formBusy' = [formBusy EXCEPT !["deleteFetch"] = FALSE]
    /\ formEvent' = [op |-> "returned", form |-> "deleteFetch", result |-> c.result,
                     wasOpen |-> formOpen["deleteFetch"],
                     did |-> FetchFormSteps(c.result)]
    /\ lastRead' = NoRead
    /\ UNCHANGED <<photos, nextId, cache>>
    /\ UNCHANGED <<navVars, likeVars>>

handleActionFetchClosesOnError(c) ==
    /\ c.kind = "deleteFetch"
    /\ c.pc = "done"
    /\ calls' = calls (-) SetToBag({c})
    /\ CASE c.result = "ok" ->
              /\ location' = "/profile"
              /\ formOpen' = [formOpen EXCEPT !["deleteFetch"] = FALSE]
              /\ UNCHANGED formError
         [] c.result = "threwValue" ->
              UNCHANGED <<formError, formOpen, location>>
         [] OTHER ->
              /\ formError' = IF formOpen["deleteFetch"]
                              THEN [formError EXCEPT !["deleteFetch"] = c.result]
                              ELSE formError
              /\ formOpen' = [formOpen EXCEPT !["deleteFetch"] = FALSE]
              /\ UNCHANGED location
    /\ formBusy' = [formBusy EXCEPT !["deleteFetch"] = FALSE]
    /\ formEvent' = [op |-> "returned", form |-> "deleteFetch", result |-> c.result,
                     wasOpen |-> formOpen["deleteFetch"],
                     did |-> <<"setError", "finally", "closeModal">>]
    /\ lastRead' = NoRead
    /\ UNCHANGED <<photos, nextId, cache>>
    /\ UNCHANGED <<navVars, likeVars>>

handleActionFetchNoFinally(c) ==
    /\ c.kind = "deleteFetch"
    /\ c.pc = "done"
    /\ calls' = calls (-) SetToBag({c})
    /\ CASE c.result = "ok" ->
              /\ location' = "/profile"
              /\ formOpen' = [formOpen EXCEPT !["deleteFetch"] = FALSE]
              /\ UNCHANGED formError
         [] c.result = "threwValue" ->
              UNCHANGED <<formError, formOpen, location>>
         [] OTHER ->
              /\ formError' = IF formOpen["deleteFetch"]
                              THEN [formError EXCEPT !["deleteFetch"] = c.result]
                              ELSE formError
              /\ UNCHANGED <<formOpen, location>>
    /\ formBusy' = IF c.result = "threwValue"
                   THEN formBusy
                   ELSE [formBusy EXCEPT !["deleteFetch"] = FALSE]
    /\ formEvent' = [op |-> "returned", form |-> "deleteFetch", result |-> c.result,
                     wasOpen |-> formOpen["deleteFetch"],
                     did |-> IF c.result = "threwValue" THEN <<"rethrow">>
                                                        ELSE FetchFormSteps(c.result)]
    /\ lastRead' = NoRead
    /\ UNCHANGED <<photos, nextId, cache>>
    /\ UNCHANGED <<navVars, likeVars>>

\* The rest of handleAction (fetch form), once the awaited fetch has settled.
\* An ok response is followed by router.refresh(), router.push("/profile"),
\* the finally block and closeModal(). A response that is not ok, or a fetch
\* that rejected with an Error, goes to the catch, which sets the error
\* state and returns through the finally block. A thrown value that is not
\* an Error is thrown again by the catch, after the finally block has run.
\* setError of a form that is no longer mounted changes nothing.
handleActionFetchReturns(c) ==
    /\ c.kind = "deleteFetch"
    /\ c.pc = "done"
    /\ calls' = calls (-) SetToBag({c})
    /\ CASE c.result = "ok" ->
              /\ location' = "/profile"
              /\ formOpen' = [formOpen EXCEPT !["deleteFetch"] = FALSE]
              /\ UNCHANGED formError
         [] c.result = "threwValue" ->
              UNCHANGED <<formError, formOpen, location>>
         [] OTHER ->
              /\ formError' = IF formOpen["deleteFetch"]
                              THEN [formError EXCEPT !["deleteFetch"] = c.result]
                              ELSE formError
              /\ UNCHANGED <<formOpen, location>>
    /\ formBusy' = [formBusy EXCEPT !["deleteFetch"] = FALSE]
    /\ formEvent' = [op |-> "returned", form |-> "deleteFetch", result |-> c.result,
                     wasOpen |-> formOpen["deleteFetch"],
                     did |-> FetchFormSteps(c.result)]
    /\ lastRead' = NoRead
    /\ UNCHANGED <<photos, nextId, cache>>
    /\ UNCHANGED <<navVars, likeVars>>

InitForm == InitNav

NextForm ==
    \/ \E f \in Forms : OpenForm(f)
    \/ \E f \in Forms : CloseForm(f)
    \/ \E photoData \in BOOLEAN : handleSubmit(photoData)
    \/ \E c \in InFlight, who \in FormSessions : UploadSucceeds(c, who)
    \/ \E c \in InFlight : UploadFails(c)
    \/ \E c \in InFlight : PostPhotosSucceeds(c)
    \/ \E c \in InFlight : CreateFails(c)
    \/ \E c \in InFlight : CreateCompletes(c)
    \/ \E c \in InFlight : handleSubmitReturns(c)
    \/ \E who \in FormSessions, target \in Targets : handleAction(who, target)
    \/ \E who \in FormSessions, target \in Targets : handleActionFetch(who, target)
    \/ \E c \in InFlight : DeleteSucceeds(c)
    \/ \E c \in InFlight : DeleteFails(c)
    \/ \E c \in InFlight : DeleteCompletes(c)
    \/ \E c \in InFlight : handleActionReturns(c)
    \/ \E c \in InFlight, isError \in BOOLEAN : FetchThrows(c, isError)
    \/ \E c \in InFlight : handleActionFetchReturns(c)

SpecForm == InitForm /\ [][NextForm]_vars

C12_FailureKeepsOpen ==
    (/\ formEvent.op = "returned"
     /\ formEvent.result = "Internal Server Error"
     /\ formEvent.wasOpen)
        => formOpen[formEvent.form]

\* C13: when the create call of the form returned Unauthorized, the handler
\* ends with the result surfaced: a message is shown or the user is sent to
\* the sign-in page.
C13_UnauthorizedSurfaced ==
    (/\ formEvent.op = "returned"
     /\ formEvent.form = "create"
     /\ formEvent.result = "Unauthorized")
        => \/ formError["create"] # None
           \/ location = "/signin"

\* ------------------------------------------------------------------------
\* Creates with a failing invalidation
\* ------------------------------------------------------------------------

\* After postPhotos resolved, revalidateTag throws: the call sits inside the
\* try of the write, so control goes to the same catch, which returns the
\* Internal Server Error result. Nothing undoes the stored photo.
RevalidateTagThrows(c) ==
    /\ c.kind \in {"action", "route"}
    /\ c.pc = "written"
    /\ Becomes(c, [c EXCEPT !.pc = "done", !.result = "Internal Server Error"])
    /\ lastRead' = NoRead
    /\ UNCHANGED <<photos, nextId, cache>>
    /\ UNCHANGED <<navVars, likeVars, formVars>>

\* After postPhotos resolved, revalidateTag returns although the cache layer
\* did not drop anything: the call goes on to its success result.
RevalidateTagFailsUnseen(c) ==
    /\ c.kind \in {"action", "route"}
    /\ c.pc = "written"
    /\ Becomes(c, [c EXCEPT !.pc = "done", !.photoId = c.photo,
                            !.result = IF c.kind = "action" THEN "redirect"
                                                            ELSE "created"])
    /\ lastRead' = NoRead
    /\ UNCHANGED <<photos, nextId, cache>>
    /\ UNCHANGED <<navVars, likeVars, formVars>>

InitFault == InitNav

NextFault ==
    \/ \E who \in Callers : postPhotoAction(who, None)
    \/ \E who \in Callers : POST(who, None)
    \/ \E c \in InFlight : PostPhotosSucceeds(c)
    \/ \E c \in InFlight : CreateFails(c)
    \/ \E c \in InFlight : CreateCompletes(c)
    \/ \E c \in InFlight : RevalidateTagThrows(c)
    \/ \E c \in InFlight : RevalidateTagFailsUnseen(c)
    \/ \E c \in InFlight : Retire(c)

SpecFault == InitFault /\ [][NextFault]_vars

\* C14: a create whose write was stored and whose invalidation failed (the
\* call ended without having invalidated a tag) keeps its photo stored and
\* reports its success result.
C14_WriteSurvivesFailedInvalidation ==
    \A c \in InFlight :
        (IsCreate(c) /\ c.pc = "done" /\ c.wrote /\ c.invalidated = {})
            => c.photo \in StoredIds /\ Succeeded(c)

\* ------------------------------------------------------------------------
\* MutationGateway: like / unlike
\* ------------------------------------------------------------------------

\* Tag of the like state of entity id for identity who.
LikeStateTag(id, who) == <<"photos/", id, "/like?userId=", who>>

\* Tag of the aggregate like count of entity id.
LikeCountTag(id) == <<"photos/", id, "/likeCount">>

LikeTagsWithListing(id, who) ==
    {LikeStateTag(id, who), LikeCountTag(id), AuthorTag(OwnerOfPhoto(id))}

\* Tags of a like or unlike.
LikeTags(id, who) == {LikeStateTag(id, who), LikeCountTag(id)}

\* Entry of a like call: identity check, existence check, then the write is
\* sent and awaited.
toggleLike(who, target) ==
    /\ BagCardinality(calls) < MaxInFlight
    /\ calls' = calls (+) SetToBag({
          IF SessionMissing(who)
          THEN [NewCall EXCEPT !.kind = "like", !.pc = "done", !.caller = who,
                               !.target = target, !.result = "Unauthorized"]
          ELSE IF target \notin StoredIds
          THEN [NewCall EXCEPT !.kind = "like", !.pc = "done", !.caller = who,
                               !.session = who, !.target = target, !.result = NotFound]
          ELSE [NewCall EXCEPT !.kind = "like", !.pc = "liking", !.caller = who,
                               !.session = who, !.target = target]})
    /\ lastRead' = NoRead
    /\ UNCHANGED <<photos, nextId, cache>>
    /\ UNCHANGED <<navVars, likeVars, formVars>>

\* The write: the like of (identity, entity) is stored if there is none,
\* removed if there is one.
LikeSucceeds(c) ==
    /\ c.kind = "like"
    /\ c.pc = "liking"
    /\ c.target \in StoredIds
    /\ LET row == [identity |-> c.session, photoId |-> c.target]
       IN  likes' = IF row \in likes THEN likes \ {row} ELSE likes \cup {row}
    /\ Becomes(c, [c EXCEPT !.pc = "liked", !.owner = OwnerOfPhoto(c.target),
                            !.wrote = TRUE])
    /\ lastRead' = NoRead
    /\ UNCHANGED <<photos, nextId, cache>>
    /\ UNCHANGED <<likeInFlight, likeAnswered>>
    /\ UNCHANGED <<navVars, formVars>>

\* The write failed: the Internal failure is returned.
LikeFails(c) ==
    /\ c.kind = "like"
    /\ c.pc = "liking"
    /\ Becomes(c, [c EXCEPT !.pc = "done", !.result = "Internal Server Error"])
    /\ lastRead' = NoRead
    /\ UNCHANGED <<photos, nextId, cache>>
    /\ UNCHANGED <<navVars, likeVars, formVars>>

\* After the write was stored: the tags are invalidated and the call returns.
LikeCompletes(c) ==
    /\ c.kind = "like"
    /\ c.pc = "liked"
    /\ LET tags == LikeTags(c.target, c.session)
       IN  /\ cache' = revalidateTag(tags)
           /\ Becomes(c, [c EXCEPT !.pc = "done", !.invalidated = tags, !.result = "ok"])
    /\ lastRead' = NoRead
    /\ UNCHANGED <<photos, nextId>>
    /\ UNCHANGED <<navVars, likeVars, formVars>>

InitLikeTags == InitNav

\* The user whose photos are liked in the like runs.
LikedOwners == {"u1"}

NextLikeTags ==
    \/ \E who \in LikedOwners : postPhotoAction(who, None)
    \/ \E c \in InFlight : PostPhotosSucceeds(c)
    \/ \E c \in InFlight : CreateCompletes(c)
    \/ \E who \in Callers, target \in Targets : toggleLike(who, target)
    \/ \E c \in InFlight : LikeSucceeds(c)
    \/ \E c \in InFlight : LikeFails(c)
    \/ \E c \in InFlight : LikeCompletes(c)
    \/ \E c \in InFlight : Retire(c)

SpecLikeTags == InitLikeTags /\ [][NextLikeTags]_vars

InitCacheDelete == InitNav

NextCacheDelete ==
    \/ \E who \in Users : postPhotoAction(who, None)
    \/ \E c \in InFlight : PostPhotosSucceeds(c)
    \/ \E c \in InFlight : CreateCompletes(c)
    \/ \E who \in Users, target \in Targets : deletePhotoAction(who, target)
    \/ \E c \in InFlight : DeleteSucceeds(c)
    \/ \E c \in InFlight : DeleteFails(c)
    \/ \E c \in InFlight : DeleteCompletes(c)
    \/ \E c \in InFlight : Retire(c)
    \/ \E authorId \in Users, keep \in BOOLEAN : getPhotos(authorId, keep)

SpecCacheDelete == InitCacheDelete /\ [][NextCacheDelete]_vars

\* C20: after a delete of E, owned by O, has returned its success, the
\* listing tag of O and the detail tag of E have been invalidated, and a read
\* of the listing of O made after that return is not the listing cached
\* before the delete: it does not contain E.
C20_ReadMissesDeleted ==
    \A c \in InFlight :
        (c.kind \in DeleteKinds /\ Succeeded(c))
            => /\ {AuthorTag(c.owner), DetailTag(c.target)} \subseteq c.invalidated
               /\ (lastRead.valid /\ lastRead.owner = c.owner)
                     => c.target \notin lastRead.data

\* ------------------------------------------------------------------------
\* Tags of the writes against tags of the cached reads
\* ------------------------------------------------------------------------

\* C21: the tags of write and read agree: a listing of owner O kept by the
\* data cache is registered under the tag a create by O invalidates,
\* photos?authorId=O.
C21_TagsAgree ==
    \A o \in Users :
        cache[o].valid => CreateTags(o) \subseteq cache[o].tags

C24_WriteBeforeInteractive ==
    navEvent.op \in {"open", "resolve"}
        => \A c \in Containers :
              (/\ phase[c] # "unmounted"
               /\ \A d \in Containers \ {c} : phase[d] = "unmounted")
                  => photoIdsRef = photoIds[c]

\* C25: of two list surfaces under the same provider, whenever one is
\* unmounted and the other is mounted with its effect run, the registry holds
\* the sequence of the mounted one: the cleanup of the other neither empties
\* it nor leaves the other's sequence in it.
C25_SoleSurfaceOwnsRegistry ==
    \A c \in Containers :
        (/\ phase[c] = "synced"
         /\ \A d \in Containers \ {c} : phase[d] = "unmounted")
            => photoIdsRef = photoIds[c]

\* C26: on an update of a list surface with a new sequence, the registry is
\* empty between the cleanup of the old effect and the run of the new one,
\* and once the effect has run the registry equals the new sequence in full:
\* nothing of the old sequence is kept or merged.
C26_UpdateOverwrites ==
    /\ \A c \in Containers : phase[c] = "cleaned" => photoIdsRef = << >>
    /\ navEvent.op = "effect"
          => /\ photoIdsRef = photoIds[navEvent.c]
             /\ navEvent.result = "rerun" => navEvent.prev = << >>

\* The effect has re-run after an update from the three-element page to a
\* two-element page in another order.
C26_Witness ==
    /\ navEvent.op = "effect"
    /\ navEvent.result = "rerun"
    /\ photoIds[navEvent.c] = <<"b", "a">>
    /\ photoIdsRef = <<"b", "a">>

\* ------------------------------------------------------------------------
\* Fetch-based PhotoDeleteForm: what follows the DELETE response
\* ------------------------------------------------------------------------

\* The three steps of the success path of the fetch form.
SuccessSteps == {"router.refresh", "router.push", "closeModal"}

IsSuccessStep(step) == step \in SuccessSteps

\* The statuses with which DELETE /api/photos/<id> answers a response that
\* is not ok.
NotOkResults == {"Unauthorized", NotFound, "Internal Server Error"}

InitFetch == InitNav

\* The photos the dialog deletes are created through the Server Action; the
\* dialog is opened, submitted and cancelled, and its DELETE is served.
NextFetch ==
    \/ \E who \in LikedOwners : postPhotoAction(who, None)
    \/ \E c \in InFlight : PostPhotosSucceeds(c)
    \/ \E c \in InFlight : CreateCompletes(c)
    \/ \E c \in InFlight : c.kind = "action" /\ Retire(c)
    \/ OpenForm("deleteFetch")
    \/ CloseForm("deleteFetch")
    \/ \E who \in FormSessions, target \in Targets : handleActionFetch(who, target)
    \/ \E c \in InFlight : DeleteSucceeds(c)
    \/ \E c \in InFlight : DeleteFails(c)
    \/ \E c \in InFlight : DeleteCompletes(c)
    \/ \E c \in InFlight, isError \in BOOLEAN : FetchThrows(c, isError)
    \/ \E c \in InFlight : handleActionFetchReturns(c)

\* A DELETE that was sent makes its next step: the server works on it, the
\* awaited fetch settles, and the code after the await runs.
FetchSettles ==
    \E c \in CallsOf("deleteFetch") :
        \/ DeleteSucceeds(c)
        \/ DeleteFails(c)
        \/ DeleteCompletes(c)
        \/ \E isError \in BOOLEAN : FetchThrows(c, isError)
        \/ handleActionFetchReturns(c)

SpecFetchLive == InitFetch /\ [][NextFetch]_vars /\ WF_vars(FetchSettles)

\* C28: after every submit of the fetch form that passed the isSubmitting
\* guard, isSubmitting eventually is false again, whether the DELETE
\* succeeded, failed with an Error, or threw a value that is not an Error
\* and is thrown again.
C28_SubmittingResets ==
    isSubmitting ~> ~isSubmitting

\* The flag is down after a thrown value that is not an Error.
C28_Witness ==
    /\ formEvent.op = "returned"
    /\ formEvent.form = "deleteFetch"
    /\ formEvent.result = "threwValue"
    /\ formEvent.did = <<"finally", "rethrow">>
    /\ ~isSubmitting

\* ------------------------------------------------------------------------
\* PhotoCreateForm.handleSubmit: upload before the action
\* ------------------------------------------------------------------------

\* postPhotoAction has been called for the submit c.
ActionCalled(c) == c.caller # None

\* C29: a submit without a selected photo starts no upload, calls no
\* postPhotoAction and leaves the modal open; with a photo, postPhotoAction
\* is called only once the upload has completed, and with the imageUrl the
\* upload returned; it is never called when the upload failed.
C29_UploadBeforeAction ==
    [][/\ (formEvent'.op = "noPhoto" /\ formEvent.op # "noPhoto")
            => /\ calls' = calls
               /\ photos' = photos
               /\ formOpen' = formOpen
               /\ formOpen'["create"]
       /\ \A c \in BagToSet(calls') :
            c.kind = "action"
                => /\ c.pc = "uploadPhoto" => (~ActionCalled(c) /\ ~c.wrote)
                   /\ c.result = "threw" => (~ActionCalled(c) /\ ~c.wrote)
                   /\ ActionCalled(c) => c.imageUrl = UploadedUrl
                   /\ c.wrote => ActionCalled(c)]_vars

\* The upload completed, postPhotoAction was called with its imageUrl and
\* stored the photo.
C29_Witness ==
    \E c \in InFlight :
        /\ c.kind = "action"
        /\ ActionCalled(c)
        /\ c.imageUrl = UploadedUrl
        /\ c.wrote
        /\ formBusy["create"]

\* ------------------------------------------------------------------------
\* postPhotoAction: the redirect
\* ------------------------------------------------------------------------

\* The ids postPhotos has handed out so far.
CreatedIds == {NewIds[i] : i \in 1..(nextId - 1)}

\* C30: postPhotoAction redirects to /photos/<id> only after postPhotos
\* succeeded, and <id> is the id of the photo that call created; a call that
\* ended Unauthorized or with the Internal Server Error result has issued no
\* redirect, and no redirect carries the empty initial photoId.
C30_RedirectAfterCreate ==
    \A c \in InFlight :
        c.kind = "action"
            => /\ c.result = "redirect"
                    => /\ c.pc = "done"
                       /\ c.wrote
                       /\ c.photoId # ""
                       /\ c.photoId = c.photo
                       /\ c.photoId \in CreatedIds
               /\ c.result \in {"Unauthorized", "Internal Server Error"}
                    => c.photoId = ""
               /\ c.photoId # "" => c.result = "redirect"

C30_Witness ==
    \E c \in InFlight :
        /\ c.kind = "action"
        /\ c.result = "redirect"
        /\ c.photoId = "p2"
        /\ c.photo = "p2"
        /\ \E d \in InFlight : d.kind = "action" /\ d.result = "Internal Server Error"

====
